---- MODULE Spec2Model ----
(***************************************************************************)
(* Model of eeepy's write-back temporary-file cache (tempcache.TempCache)  *)
(* and of the eeepy.fileutil primitives it relies on.                      *)
(*                                                                         *)
(* One TempCache object is used in a with/as block: the block registers    *)
(* files and writes their temporary files, then __exit__ runs do_copy,     *)
(* which for every entry runs _copy_file (a loop of copy and validate      *)
(* attempts) and _rm_file.  The file system, the outcome of every copy and *)
(* of every os.remove, and a corruption of the destination between a copy  *)
(* and its validation are inputs of the environment.                       *)
(***************************************************************************)
EXTENDS Integers, Sequences, FiniteSets, TLC

\* ------------------------------------------------------------------ bounds
MaxEntries == 3
MaxRetry == 2
MaxTok == 5
MaxSpecLen == 3
MaxFlush == 2

\* ------------------------------------------------------- program constants
DefaultRetryDelay == 4
CleanupTries == 3

\* --------------------------------------------------------- file system data
NoFile == "NoFile"
Data == "data"
Partial == "partial"
Corrupt == "corrupt"
Contents == {Data, Partial, Corrupt}

None == "None"

\* logical file names register is called with; names 1 and 2 lie in
\* different directories and have the same base name
Names == 1..MaxEntries

\* os.path.basename(file_path)
BaseName(file_name) == (file_name + 1) \div 2

Bases == {BaseName(n) : n \in Names}

\* register line 125: os.path.join(temp_dir, '{}.{}.tmp'.format(base_name, uuid))
join_temp(base, tok) == <<"temp", base, tok>>

\* register line 133: '%s.%s.tmp' % (base_name, uuid), without temp_dir
resynth(base, tok) == <<"cwd", base, tok>>

\* the temporary file of the i-th register call when nothing collides
TempPath(i) == join_temp(BaseName(i), i)

\* register line 121: os.path.abspath(file_name)
DestPath(i) == <<"dest", BaseName(i), i>>

Paths == {TempPath(i) : i \in 1..MaxEntries} \cup {DestPath(i) : i \in 1..MaxEntries}

RetryDelays == {2, DefaultRetryDelay}

VARIABLES
    retry,            \* TempCache.__retry
    retry_delay,      \* TempCache.__retry_delay
    copy_on_err,      \* TempCache.__copy_on_err
    validate,         \* TempCache.__validate
    registered_file,  \* TempCache.__registered_file, in insertion order
    fs,               \* the file system: path -> content, or NoFile
    pc,               \* position of the caller / of do_copy
    idx,              \* do_copy: index of the entry being flushed
    n_try,            \* _copy_file: n_try
    last_ex,          \* _copy_file: last_ex
    trace,            \* what the running (or last) _copy_file did, in order
    n_copy,           \* per entry: number of calls of fileutil.copyfile
    cksum,            \* per entry: the two checksums of its last validation
    ex_type,          \* the exception the with block passed to __exit__
    copy_called,      \* whether __exit__ called do_copy
    flush_ex,         \* the exception do_copy raised
    scope_ex,         \* the exception that leaves the with statement
    rm_trace,         \* what the last _rm_file did, in order
    uuid_clock,       \* number of uuid.uuid1() calls so far
    n_register,       \* number of register calls that returned
    reg_cands,        \* the temp paths the last register call synthesized
    reg_ex,           \* the exception the last register call raised
    files,            \* fileutil: path -> file (kind, content, mode, inode)
    cp_args,          \* fileutil: arguments of the last copyfile / copy call
    cp_before,        \* fileutil: the files before that call
    cp_ex,            \* fileutil: the exception that call raised
    bw_spec,          \* fileutil: argument of _parse_bandwidth
    bw_value,         \* fileutil: what _parse_bandwidth returned or raised
    flush_log         \* how the do_copy calls before the last one ended

vars == <<retry, retry_delay, copy_on_err, validate, registered_file, fs, pc, idx,
          n_try, last_ex, trace, n_copy, cksum, ex_type, copy_called, flush_ex,
          scope_ex, rm_trace, uuid_clock, n_register, reg_cands, reg_ex,
          files, cp_args, cp_before, cp_ex, bw_spec, bw_value, flush_log>>

regvars == <<uuid_clock, n_register, reg_cands, reg_ex>>

utilvars == <<files, cp_args, cp_before, cp_ex, bw_spec, bw_value>>

\* what the steps of _copy_file leave alone
extvars == <<rm_trace, regvars, utilvars, flush_log>>

config == <<retry, retry_delay, copy_on_err, validate>>

\* ------------------------------------------------------------ trace helpers
Ev(kind, arg) == [ev |-> kind, arg |-> arg]

CountEv(s, kind) == Len(SelectSeq(s, LAMBDA e : e.ev = kind))

\* positions of the events of one kind, in order
EvPos(s, kind) == {j \in 1..Len(s) : s[j].ev = kind}

\* the sum of the sleeps among the first n events
RECURSIVE SumSleepTo(_, _)
SumSleepTo(s, n) ==
    IF n = 0 THEN 0
    ELSE (IF s[n].ev = "sleep" THEN s[n].arg ELSE 0) + SumSleepTo(s, n - 1)

SumSleep(s) == SumSleepTo(s, Len(s))

\* ------------------------------------------------------------ os primitives
isfile(f, p) == f[p] # NoFile

exists(f, p) == f[p] # NoFile

\* hashlib.md5 over the chunks of the file: a digest of the content
\* (distinct contents of the model have distinct digests)
md5(content) ==
    CASE content = Data -> 11
      [] content = Partial -> 23
      [] content = Corrupt -> 37

\* _get_checksum: the digest of the content of an existing file
get_checksum(f, p) == md5(f[p])

\* _get_checksum line 29: open() of a missing file raises IOError
open_fails(f, p) == f[p] = NoFile

\* fileutil.copyfile(src, dst): the environment picks the outcome.
\*   "ok"          the data is copied, no exception
\*   "err_nowrite" an exception before dst is opened for writing
\*   "err_partial" an exception after dst was opened (truncated) for writing
CopyOutcomes == {"ok", "err_nowrite", "err_partial"}

copyfile_possible(f, src, outcome) ==
    \/ outcome = "err_nowrite"
    \/ outcome \in {"ok", "err_partial"} /\ f[src] # NoFile

copyfile_fs(f, src, dst, outcome) ==
    CASE outcome = "ok" -> [f EXCEPT ![dst] = f[src]]
      [] outcome = "err_partial" -> [f EXCEPT ![dst] = Partial]
      [] outcome = "err_nowrite" -> f

copyfile_ex(outcome) == IF outcome = "ok" THEN None ELSE "CopyError"

\* ---------------------------------------------------------------- TempCache
CacheEntry(file_path, temp_file, do_rm) ==
    [file_path |-> file_path, temp_file |-> temp_file, do_rm |-> do_rm]

\* no register call yet
RegInit ==
    /\ uuid_clock = 0
    /\ n_register = 0
    /\ reg_cands = <<>>
    /\ reg_ex = None

\* _parse_bandwidth has not been called
NotParsed == [called |-> FALSE, ret |-> 0, ex |-> None]

\* eeepy.fileutil is not called directly
UtilIdle ==
    /\ files = <<>>
    /\ cp_args = <<>>
    /\ cp_before = <<>>
    /\ cp_ex = None
    /\ bw_spec = <<>>
    /\ bw_value = NotParsed

Init ==
    /\ retry \in 0..MaxRetry
    /\ retry_delay \in RetryDelays
    /\ copy_on_err \in BOOLEAN
    /\ validate \in BOOLEAN
    /\ registered_file = <<>>
    /\ fs = [p \in Paths |-> NoFile]
    /\ pc = "body"
    /\ idx = 0
    /\ n_try = 0
    /\ last_ex = None
    /\ trace = <<>>
    /\ n_copy = [i \in 1..MaxEntries |-> 0]
    /\ cksum = [i \in 1..MaxEntries |-> <<>>]
    /\ ex_type = None
    /\ copy_called = FALSE
    /\ flush_ex = None
    /\ scope_ex = None
    /\ rm_trace = <<>>
    /\ RegInit
    /\ flush_log = <<>>
    /\ UtilIdle

\* uuid.uuid1(): time-ordered, never the same value twice in one process
uuid1(clock) == clock + 1

\* register line 132: the condition of the loop that tries other names
SynthContinues(f, cand, file_count) == exists(f, cand) /\ file_count < 3

\* register lines 132-133: file_count after one pass of the loop (the loop
\* body does not change it)
NextFileCount(file_count) == file_count

\* register lines 130-133: the loop, from candidate cands[Len(cands)] on;
\* the candidates synthesized, while uuid values below MaxTok are left
RECURSIVE retry_synth(_, _, _, _)
retry_synth(f, base, cands, file_count) ==
    IF SynthContinues(f, cands[Len(cands)], file_count) /\ uuid_clock + Len(cands) < MaxTok
    THEN retry_synth(f, base,
                     Append(cands, resynth(base, uuid1(uuid_clock + Len(cands)))),
                     NextFileCount(file_count))
    ELSE [cands |-> cands, file_count |-> file_count]

\* register line 139: two temp paths are the same key of __registered_file
SameKeyMutant(t1, t2) == t1[2] = t2[2]
SameKey(t1, t2) == t1 = t2

\* register line 139: self.__registered_file[temp_file] = CacheEntry(...)
DictSet(reg, entry) ==
    IF \E j \in 1..Len(reg) : SameKey(reg[j].temp_file, entry.temp_file)
    THEN [j \in 1..Len(reg) |->
              IF SameKey(reg[j].temp_file, entry.temp_file) THEN entry ELSE reg[j]]
    ELSE Append(reg, entry)

\* register(file_name, do_rm)
register(file_name, do_rm) ==
    /\ pc = "body"
    /\ Len(registered_file) < MaxEntries
    /\ uuid_clock < MaxTok
    /\ LET base == BaseName(file_name)
           first == join_temp(base, uuid1(uuid_clock))
           r == IF exists(fs, first)
                THEN retry_synth(fs, base, <<first>>, 1)
                ELSE [cands |-> <<first>>, file_count |-> 0]
           temp_file == r.cands[Len(r.cands)]
       IN \* the loop ended by its own condition, not for want of uuid values
          /\ ~(exists(fs, first) /\ SynthContinues(fs, temp_file, r.file_count))
          /\ uuid_clock' = uuid_clock + Len(r.cands)
          /\ reg_cands' = r.cands
          /\ IF exists(fs, first) /\ exists(fs, temp_file)
             THEN \* lines 135-136
                  /\ reg_ex' = "IOError"
                  /\ UNCHANGED <<registered_file, n_register>>
             ELSE /\ reg_ex' = None
                  /\ n_register' = n_register + 1
                  /\ registered_file' =
                         DictSet(registered_file,
                                 CacheEntry(DestPath(file_name), temp_file, do_rm))
    /\ UNCHANGED <<config, fs, pc, idx, n_try, last_ex, trace, n_copy, cksum,
                   ex_type, copy_called, flush_ex, scope_ex, rm_trace, utilvars,
                   flush_log>>

\* the with block writes the temporary file register returned
WriteTemp(i) ==
    /\ pc = "body"
    /\ i \in 1..Len(registered_file)
    /\ fs[registered_file[i].temp_file] = NoFile
    /\ fs' = [fs EXCEPT ![registered_file[i].temp_file] = Data]
    /\ UNCHANGED <<config, registered_file, pc, idx, n_try, last_ex, trace, n_copy,
                   cksum, ex_type, copy_called, flush_ex, scope_ex, extvars>>

\* __exit__ line 175: the condition under which do_copy is called
ShouldCopyMutant(ex, coe) == TRUE
ShouldCopy(ex, coe) == ex = None \/ coe

\* __exit__ line 178: the value __exit__ returns (True would suppress ex_type)
ExitReturnMutant == TRUE
ExitReturn == FALSE

\* the exception that leaves the with statement, given the exception of the
\* block and the one raised inside __exit__ (by do_copy)
Propagated(ex, fex) ==
    IF fex # None THEN fex
    ELSE IF ExitReturn THEN None ELSE ex

\* do_copy lines 186-194: no handler, an exception of _copy_file or of
\* _rm_file ends the loop over the entries
AbortsFlushMutant(ex) == FALSE
AbortsFlush(ex) == ex # None

\* _copy_file line 213: the loop condition
LoopContinuesMutant(n, last) == n <= retry /\ (n = 0 \/ last # None)
LoopContinues(n, last) == n <= retry

\* _copy_file line 218: the sleep before attempt n > 0
SleepTimeMutant(n) == retry_delay * n
SleepTime(n) == retry_delay ^ n

\* _validate_copy line 299: the comparison of the two checksums
ChecksumMismatchMutant(a, b) == a # a
ChecksumMismatch(a, b) == a # b

\* _copy_file line 206: the check of the temporary file
TempFileOkMutant(f, p) == TRUE
TempFileOk(f, p) == isfile(f, p)

\* do_copy ends: with exception fex, or normally (None)
EndFlush(fex) ==
    /\ pc' = "done"
    /\ flush_ex' = fex
    /\ scope_ex' = Propagated(ex_type, fex)

\* do_copy moves to the entry after idx, or returns
NextEntry ==
    IF idx < Len(registered_file)
    THEN /\ idx' = idx + 1
         /\ pc' = "copy_check"
         /\ UNCHANGED <<flush_ex, scope_ex>>
    ELSE /\ EndFlush(None)
         /\ UNCHANGED idx

\* exception ex leaves _copy_file or _rm_file of entry idx
Raise(ex) ==
    IF AbortsFlush(ex)
    THEN /\ EndFlush(ex)
         /\ UNCHANGED idx
    ELSE NextEntry

\* __exit__(ex_type, ex_value, ex_tb)
exit(ex) ==
    /\ pc = "body"
    /\ ex_type' = ex
    /\ IF ShouldCopy(ex, copy_on_err)
       THEN /\ copy_called' = TRUE
            /\ IF registered_file = <<>>
               THEN \* do_copy has nothing to iterate over and returns
                    /\ pc' = "done"
                    /\ scope_ex' = Propagated(ex, None)
                    /\ UNCHANGED <<idx, flush_ex>>
               ELSE /\ pc' = "copy_check"
                    /\ idx' = 1
                    /\ UNCHANGED <<flush_ex, scope_ex>>
       ELSE /\ pc' = "done"
            /\ scope_ex' = Propagated(ex, None)
            /\ UNCHANGED <<copy_called, idx, flush_ex>>
    /\ UNCHANGED <<config, registered_file, fs, n_try, last_ex, trace, n_copy, cksum,
                   extvars>>

\* _copy_file lines 205-211: check of the temporary file, initialisation
copy_file_check ==
    /\ pc = "copy_check"
    /\ trace' = <<>>
    /\ IF ~TempFileOk(fs, registered_file[idx].temp_file)
       THEN /\ Raise("IOError")
            /\ UNCHANGED <<n_try, last_ex>>
       ELSE /\ n_try' = 0
            /\ last_ex' = None
            /\ pc' = IF LoopContinues(0, None) THEN "attempt" ELSE "finish"
            /\ UNCHANGED <<idx, flush_ex, scope_ex>>
    /\ UNCHANGED <<config, registered_file, fs, n_copy, cksum, ex_type, copy_called,
                   extvars>>

\* _copy_file lines 214, 221-225: last_ex after the copy of one attempt that
\* raised ex (None: it returned), when it was prev before the attempt
AttemptLastExMutant(prev, ex) == IF ex # None THEN ex ELSE prev
AttemptLastEx(prev, ex) == ex

\* _copy_file lines 213-225: one pass of the loop up to the copy
attempt(outcome) ==
    /\ pc = "attempt"
    /\ LET e == registered_file[idx]
           slept == IF n_try > 0
                    THEN Append(trace, Ev("sleep", SleepTime(n_try)))
                    ELSE trace
       IN /\ copyfile_possible(fs, e.temp_file, outcome)
          /\ fs' = copyfile_fs(fs, e.temp_file, e.file_path, outcome)
          /\ last_ex' = AttemptLastEx(last_ex, copyfile_ex(outcome))
          /\ trace' = Append(slept, Ev("copy", copyfile_ex(outcome)))
    /\ n_copy' = [n_copy EXCEPT ![idx] = @ + 1]
    /\ pc' = "validate"
    /\ UNCHANGED <<config, registered_file, idx, n_try, cksum, ex_type, copy_called,
                   flush_ex, scope_ex, extvars>>

\* the environment alters the destination between a copy that returned and
\* its validation
CorruptDest ==
    /\ pc = "validate"
    /\ trace[Len(trace)].ev = "copy"
    /\ trace[Len(trace)].arg = None
    /\ fs' = [fs EXCEPT ![registered_file[idx].file_path] = Corrupt]
    /\ trace' = Append(trace, Ev("corrupt", None))
    /\ UNCHANGED <<config, registered_file, pc, idx, n_try, last_ex, n_copy, cksum,
                   ex_type, copy_called, flush_ex, scope_ex, extvars>>

\* _validate_copy: None, or the exception it raises
validate_copy(f, temp_file, dest_file) ==
    IF ~validate THEN None
    ELSE IF open_fails(f, temp_file) \/ open_fails(f, dest_file) THEN "IOError"
    ELSE LET cksum_temp == get_checksum(f, temp_file)
             cksum_dest == get_checksum(f, dest_file)
         IN IF ChecksumMismatch(cksum_temp, cksum_dest) THEN "ChecksumError" ELSE None

\* _copy_file lines 227-231: the validation (not inside the try) and n_try += 1
validate_step ==
    /\ pc = "validate"
    /\ LET e == registered_file[idx]
           vex == validate_copy(fs, e.temp_file, e.file_path)
       IN /\ trace' = Append(trace, Ev("validate", vex))
          /\ cksum' = IF validate /\ vex # "IOError"
                      THEN [cksum EXCEPT ![idx] = <<get_checksum(fs, e.temp_file),
                                                    get_checksum(fs, e.file_path)>>]
                      ELSE cksum
          /\ IF vex # None
             THEN \* the exception leaves _copy_file
                  /\ Raise(vex)
                  /\ UNCHANGED n_try
             ELSE /\ n_try' = n_try + 1
                  /\ pc' = IF LoopContinues(n_try + 1, last_ex) THEN "attempt" ELSE "finish"
                  /\ UNCHANGED <<idx, flush_ex, scope_ex>>
    /\ UNCHANGED <<config, registered_file, fs, last_ex, n_copy, ex_type, copy_called,
                   extvars>>

\* _copy_file lines 238-244: the events of `fails` failing os.remove calls,
\* then a successful one if fewer than CleanupTries failed
RECURSIVE CleanupEvents(_, _)
CleanupEvents(fails, count) ==
    IF count = CleanupTries THEN <<>>
    ELSE IF fails = 0 THEN <<Ev("remove_dest", None)>>
    ELSE <<Ev("remove_dest", "OSError")>> \o CleanupEvents(fails - 1, count + 1)

\* _copy_file lines 243-244: what a failed os.remove of the destination
\* raises out of the cleanup (the except clause swallows it)
CleanupErrorMutant(fails) == IF fails > 0 THEN "OSError" ELSE None
CleanupError(fails) == None

\* do_copy line 193: the temporary file of entry e is removed after its copy
ShouldRemoveMutant(e) == TRUE
ShouldRemove(e) == e.do_rm

\* _copy_file line 234: the condition under which _copy_file raises
TransferFailedMutant(last) == FALSE
TransferFailed(last) == last # None

\* _copy_file lines 233-247: after the loop
finish(fails) ==
    /\ pc = "finish"
    /\ LET e == registered_file[idx]
       IN IF TransferFailed(last_ex)
          THEN /\ IF exists(fs, e.file_path)
                  THEN LET raised == IF CleanupError(fails) # None
                                     THEN CleanupError(fails)
                                     ELSE last_ex
                       IN /\ trace' = trace \o CleanupEvents(fails, 0)
                                            \o <<Ev("raise", raised)>>
                          /\ fs' = IF fails < CleanupTries
                                   THEN [fs EXCEPT ![e.file_path] = NoFile]
                                   ELSE fs
                          /\ Raise(raised)
                  ELSE /\ fails = 0
                       /\ trace' = Append(trace, Ev("raise", last_ex))
                       /\ UNCHANGED fs
                       /\ Raise(last_ex)
          ELSE /\ fails = 0
               /\ trace' = Append(trace, Ev("return", None))
               /\ UNCHANGED fs
               /\ IF ShouldRemove(e)
                  THEN /\ pc' = "rm"
                       /\ UNCHANGED <<idx, flush_ex, scope_ex>>
                  ELSE NextEntry
    /\ UNCHANGED <<config, registered_file, n_try, last_ex, n_copy, cksum, ex_type,
                   copy_called, extvars>>

\* _rm_file line 264: the loop condition
RmLoopContinues(n) == n <= retry

\* _rm_file lines 264-279: the events of the loop from pass n on, when the
\* first `fails` os.remove calls fail
RECURSIVE RmEvents(_, _)
RmEvents(fails, n) ==
    IF ~RmLoopContinues(n) THEN <<>>
    ELSE (IF n > 0 THEN <<Ev("sleep", SleepTime(n))>> ELSE <<>>)
         \o (IF fails = 0
             THEN <<Ev("remove", None)>>
             ELSE <<Ev("remove", "OSError")>> \o RmEvents(fails - 1, n + 1))

\* _rm_file lines 262, 275-276: last_ex after the loop (set by each failed
\* os.remove and not reset by a later pass)
RmLastEx(fails) == IF fails > 0 THEN "OSError" ELSE None

\* _rm_file line 282: the condition under which _rm_file raises
RmRaisesMutant(last) == FALSE
RmRaises(last) == last # None

\* _rm_file(temp_file): the first `fails` os.remove calls fail
rm_file(fails) ==
    /\ pc = "rm"
    /\ fails <= retry + 1
    /\ LET e == registered_file[idx]
       IN IF ~isfile(fs, e.temp_file)
          THEN /\ fails = 0
               /\ rm_trace' = <<Ev("raise", "IOError")>>
               /\ Raise("IOError")
               /\ UNCHANGED fs
          ELSE /\ fs' = IF fails <= retry
                        THEN [fs EXCEPT ![e.temp_file] = NoFile]
                        ELSE fs
               /\ IF RmRaises(RmLastEx(fails))
                  THEN /\ rm_trace' = Append(RmEvents(fails, 0), Ev("raise", RmLastEx(fails)))
                       /\ Raise(RmLastEx(fails))
                  ELSE /\ rm_trace' = Append(RmEvents(fails, 0), Ev("return", None))
                       /\ NextEntry
    /\ UNCHANGED <<config, registered_file, n_try, last_ex, trace, n_copy, cksum,
                   ex_type, copy_called, regvars, utilvars, flush_log>>

Next ==
    \/ \E do_rm \in BOOLEAN : register(Len(registered_file) + 1, do_rm)
    \/ \E i \in 1..MaxEntries : WriteTemp(i)
    \/ \E ex \in {None, "BodyError"} : exit(ex)
    \/ copy_file_check
    \/ \E outcome \in CopyOutcomes : attempt(outcome)
    \/ CorruptDest
    \/ validate_step
    \/ \E fails \in 0..CleanupTries : finish(fails)
    \/ \E fails \in 0..(MaxRetry + 1) : rm_file(fails)

Spec == Init /\ [][Next]_vars

\* ------------------------------------------------- reading the trace
Copies == CountEv(trace, "copy")

Sleeps == CountEv(trace, "sleep")

AllCopiesFailed == \A j \in EvPos(trace, "copy") : trace[j].arg # None

AllCopiesOk == \A j \in EvPos(trace, "copy") : trace[j].arg = None

\* the index (from 0) of the attempt the event at position j belongs to
AttemptOf(j) == CountEv(SubSeq(trace, 1, j), "copy") - 1

LastEv == trace[Len(trace)]

\* the _copy_file of entry idx has raised after at least one attempt
TransferRaised ==
    /\ trace # <<>>
    /\ \/ LastEv.ev = "raise"
       \/ LastEv.ev = "validate" /\ LastEv.arg # None

\* the _copy_file of entry idx has returned
TransferReturned == trace # <<>> /\ LastEv.ev = "return"

CurDest == registered_file[idx].file_path

CurTemp == registered_file[idx].temp_file

RECURSIVE SumPow(_, _)
SumPow(b, n) == IF n = 0 THEN 0 ELSE b ^ n + SumPow(b, n - 1)

\* ------------------------------------------------------------------ claims

\* C1 (as claimed): when the temp file exists and every call of the copier
\* fails, _copy_file raises only after retry + 1 calls of the copier, and it
\* does raise.
C1_RetryExhaustion ==
    /\ (TransferRaised /\ AllCopiesFailed) => Copies = retry + 1
    /\ TransferReturned => ~AllCopiesFailed

\* C2 (as claimed): a ChecksumError of the validation of attempt n < retry
\* does not end the loop: once the transfer is over, retry + 1 attempts were
\* made.
C2_ChecksumErrorRetried ==
    (TransferRaised \/ TransferReturned) =>
        \A j \in EvPos(trace, "validate") :
            (trace[j].arg = "ChecksumError" /\ AttemptOf(j) < retry)
                => Copies = retry + 1

\* C3 (as claimed): when _copy_file fails with a copy error or a
\* ChecksumError, a destination file that exists has seen a removal attempt
\* before the error reaches the caller, so it is only left behind when every
\* removal failed.
C3_FailedDestRemoved ==
    (pc = "done" /\ TransferRaised /\ flush_ex \in {"CopyError", "ChecksumError"}) =>
        (exists(fs, CurDest) => CountEv(trace, "remove_dest") > 0)

\* C4: with validate enabled, a destination altered between a copy and its
\* validation makes do_copy raise ChecksumError at that validation, and when
\* do_copy returns normally every entry's last validation saw equal digests.
C4_ValidatedIntegrity ==
    validate =>
        /\ \A j \in EvPos(trace, "corrupt") :
               j < Len(trace) =>
                   /\ trace[j + 1].ev = "validate"
                   /\ trace[j + 1].arg = "ChecksumError"
                   /\ pc = "done"
                   /\ flush_ex = "ChecksumError"
        /\ (pc = "done" /\ copy_called /\ flush_ex = None) =>
               \A i \in 1..Len(registered_file) :
                   /\ cksum[i] # <<>>
                   /\ cksum[i][1] = cksum[i][2]

C4_Witness ==
    /\ validate
    /\ pc = "done"
    /\ idx = 2
    /\ flush_ex = "ChecksumError"
    /\ EvPos(trace, "corrupt") # {}
    /\ cksum[1] # <<>>
    /\ cksum[2][1] # cksum[2][2]

\* C5: when the transfer (or the temp removal) of entry idx fails, do_copy
\* raises at once; the entries before idx keep their destination files and
\* no copy was attempted for the entries after idx, whose destination files
\* do not exist.
C5_PartialFlush ==
    /\ TransferRaised => (pc = "done" /\ flush_ex # None)
    /\ (pc = "done" /\ flush_ex # None) =>
           \A i \in 1..Len(registered_file) :
               /\ i < idx => exists(fs, registered_file[i].file_path)
               /\ i > idx => /\ n_copy[i] = 0
                             /\ ~exists(fs, registered_file[i].file_path)

C5_Witness ==
    /\ pc = "done"
    /\ Len(registered_file) = 3
    /\ idx = 2
    /\ TransferRaised
    /\ n_copy[2] = retry + 1
    /\ exists(fs, DestPath(1))
    /\ ~exists(fs, DestPath(3))
    /\ exists(fs, TempPath(3))

\* C6: __exit__ calls do_copy exactly when the block ended normally or
\* copy_on_err is set; otherwise nothing is copied, no destination exists and
\* the block's exception leaves the with statement unchanged.
C6_ExitCopies ==
    pc # "body" =>
        /\ copy_called <=> (ex_type = None \/ copy_on_err)
        /\ (ex_type # None /\ ~copy_on_err) =>
               /\ pc = "done"
               /\ scope_ex = ex_type
               /\ \A i \in 1..MaxEntries :
                      n_copy[i] = 0 /\ ~exists(fs, DestPath(i))

C6_Witness ==
    /\ pc = "done"
    /\ ex_type = "BodyError"
    /\ ~copy_on_err
    /\ Len(registered_file) = 2
    /\ exists(fs, TempPath(1))
    /\ exists(fs, TempPath(2))
    /\ scope_ex = "BodyError"

\* C7: the with statement ends with an exception whenever the block or
\* do_copy raised; it ends normally only if neither did.
C7_NeverSuppresses ==
    pc = "done" =>
        /\ ex_type # None => scope_ex # None
        /\ flush_ex # None => scope_ex = flush_ex
        /\ scope_ex = None => (ex_type = None /\ flush_ex = None)
        /\ (ex_type # None /\ flush_ex = None) => scope_ex = ex_type

C7_Witness ==
    /\ pc = "done"
    /\ ex_type = "BodyError"
    /\ copy_on_err
    /\ flush_ex = "CopyError"
    /\ scope_ex # None

\* C8: a _copy_file whose copies all succeed (and whose validations pass)
\* returns only after retry + 1 copies, with retry sleeps between them.
C8_NoEarlyExit ==
    /\ (TransferReturned /\ AllCopiesOk) => (Copies = retry + 1 /\ Sleeps = retry)
    /\ (pc = "finish" /\ AllCopiesOk) => Copies = retry + 1

C8_Witness ==
    /\ TransferReturned
    /\ AllCopiesOk
    /\ validate
    /\ retry = 2
    /\ Copies = 3
    /\ Sleeps = 2

\* C9: when the temporary file of entry idx is missing at the start of its
\* transfer (the transfer has not returned and the file is not there),
\* _copy_file raises IOError at once: no copy, no sleep, the destination
\* untouched; the loop is only entered with the file present.
C9_MissingTemp ==
    /\ pc \in {"attempt", "validate", "finish"} => isfile(fs, CurTemp)
    /\ (pc = "done" /\ copy_called /\ idx >= 1 /\ ~TransferReturned
            /\ ~isfile(fs, CurTemp)) =>
           /\ flush_ex = "IOError"
           /\ trace = <<>>
           /\ n_copy[idx] = 0
           /\ ~exists(fs, CurDest)

C9_Witness ==
    /\ pc = "done"
    /\ idx = 2
    /\ trace = <<>>
    /\ ~isfile(fs, TempPath(2))
    /\ flush_ex = "IOError"
    /\ n_copy[2] = 0

\* from position j on, with n copies before it, every copy of s is attempt 0
\* at the head of s or is preceded by exactly one sleep of retry_delay ** n
RECURSIVE BackoffFrom(_, _, _)
BackoffFrom(s, j, n) ==
    IF j > Len(s) THEN TRUE
    ELSE IF s[j].ev # "copy" THEN BackoffFrom(s, j + 1, n)
    ELSE /\ IF n = 0
            THEN j = 1
            ELSE /\ s[j - 1].ev = "sleep"
                 /\ s[j - 1].arg = retry_delay ^ n
                 /\ s[j - 2].ev # "sleep"
         /\ BackoffFrom(s, j + 1, n + 1)

\* C10: attempt 0 is preceded by no sleep, attempt n >= 1 by exactly one sleep
\* of retry_delay ** n; a run of all retry + 1 attempts sleeps the sum of
\* retry_delay ** n for n = 1..retry.
C10_Backoff ==
    /\ BackoffFrom(trace, 1, 0)
    /\ Sleeps = IF Copies = 0 THEN 0 ELSE Copies - 1
    /\ Copies = retry + 1 => SumSleep(trace) = SumPow(retry_delay, retry)

C10_Witness ==
    /\ retry = 2
    /\ retry_delay = DefaultRetryDelay
    /\ Copies = 3
    /\ SumSleep(trace) = 20

\* ------------------------------------------------- do_copy and _rm_file
FlushPcs == {"copy_check", "attempt", "validate", "finish", "rm"}

RmFails == Len(SelectSeq(rm_trace, LAMBDA e : e.ev = "remove" /\ e.arg # None))

RmLast == rm_trace[Len(rm_trace)]

\* C11: while do_copy runs, the entries before the current one have been
\* transferred and, when do_rm is set, their temporary file is gone, when it
\* is not set, their temporary file is still there; no copy of a later entry
\* has started; the temporary file of the current entry is still there while
\* its transfer runs.
C11_FlushOrder ==
    pc \in FlushPcs =>
        \A j \in 1..Len(registered_file) :
            LET e == registered_file[j]
            IN /\ j < idx => /\ n_copy[j] > 0
                             /\ e.do_rm => ~exists(fs, e.temp_file)
                             /\ ~e.do_rm => isfile(fs, e.temp_file)
               /\ j > idx => n_copy[j] = 0
               /\ j = idx /\ pc \in {"attempt", "validate", "finish"}
                     => isfile(fs, e.temp_file)

C11_Witness ==
    /\ pc = "copy_check"
    /\ idx = 3
    /\ registered_file[1].do_rm
    /\ ~registered_file[2].do_rm
    /\ ~exists(fs, registered_file[1].temp_file)
    /\ isfile(fs, registered_file[2].temp_file)
    /\ n_copy[3] = 0

\* C15: _rm_file calls os.remove at most retry + 1 times, stops at the first
\* call that succeeds, and raises if and only if all retry + 1 calls failed.
C15_RmRaisesIffAllFailed ==
    (rm_trace # <<>> /\ rm_trace[1].ev # "raise") =>
        /\ CountEv(rm_trace, "remove") <= retry + 1
        /\ CountEv(rm_trace, "remove") <= RmFails + 1
        /\ RmLast.ev = "raise" <=> RmFails = retry + 1

\* C16: when do_copy has returned normally every destination exists, and the
\* temporary file of an entry exists exactly when its do_rm is false.
C16_AfterFlush ==
    (pc = "done" /\ copy_called /\ flush_ex = None) =>
        \A j \in 1..Len(registered_file) :
            LET e == registered_file[j]
            IN /\ exists(fs, e.file_path)
               /\ exists(fs, e.temp_file) <=> ~e.do_rm

C16_Witness ==
    /\ pc = "done"
    /\ copy_called
    /\ flush_ex = None
    /\ Len(registered_file) = 2
    /\ registered_file[1].do_rm
    /\ ~registered_file[2].do_rm
    /\ ~exists(fs, registered_file[1].temp_file)

\* C17: the cleanup of the destination after a failed transfer calls
\* os.remove at most CleanupTries times, and what _copy_file then raises is
\* last_ex, the error of the copy, which is what do_copy delivers.
C17_CleanupSwallowed ==
    (trace # <<>> /\ LastEv.ev = "raise") =>
        /\ CountEv(trace, "remove_dest") <= CleanupTries
        /\ LastEv.arg = last_ex
        /\ LastEv.arg = "CopyError"
        /\ pc = "done" /\ flush_ex = last_ex

C17_Witness ==
    /\ trace # <<>>
    /\ LastEv.ev = "raise"
    /\ CountEv(trace, "remove_dest") = CleanupTries
    /\ Len(SelectSeq(trace, LAMBDA e : e.ev = "remove_dest" /\ e.arg # None)) = CleanupTries
    /\ exists(fs, CurDest)
    /\ flush_ex = "CopyError"

\* ------------------------------------------------- register on a used disk
\* every path register can synthesize, and the destinations
RegPaths ==
    {join_temp(b, t) : b \in Bases, t \in 1..MaxTok}
        \cup {resynth(b, t) : b \in Bases, t \in 1..MaxTok}
        \cup {DestPath(n) : n \in Names}

\* the candidates a first register call for base name b can synthesize
Chain(b) == {join_temp(b, uuid1(0))} \cup {resynth(b, t) : t \in 2..MaxTok}

\* a cache constructed while files left by others lie where candidates of
\* one base name will point
InitRegister ==
    /\ retry = 0
    /\ retry_delay = DefaultRetryDelay
    /\ copy_on_err = FALSE
    /\ validate = TRUE
    /\ registered_file = <<>>
    /\ \E b \in Bases : \E pre \in SUBSET Chain(b) :
           fs = [p \in RegPaths |-> IF p \in pre THEN Data ELSE NoFile]
    /\ pc = "body"
    /\ idx = 0
    /\ n_try = 0
    /\ last_ex = None
    /\ trace = <<>>
    /\ n_copy = [i \in 1..MaxEntries |-> 0]
    /\ cksum = [i \in 1..MaxEntries |-> <<>>]
    /\ ex_type = None
    /\ copy_called = FALSE
    /\ flush_ex = None
    /\ scope_ex = None
    /\ rm_trace = <<>>
    /\ RegInit
    /\ flush_log = <<>>
    /\ UtilIdle

NextRegister ==
    \/ \E file_name \in Names : register(file_name, TRUE)
    \/ \E i \in 1..MaxEntries : WriteTemp(i)

SpecRegister == InitRegister /\ [][NextRegister]_vars

\* the path lies in temp_dir
InTempDir(p) == p[1] = "temp"

\* C12: the entries have pairwise distinct temp paths and there is one entry
\* for each register call that returned.
C12_DistinctTempPaths ==
    /\ Len(registered_file) = n_register
    /\ \A i, j \in 1..Len(registered_file) :
           i # j => registered_file[i].temp_file # registered_file[j].temp_file

C12_Witness ==
    /\ n_register = 2
    /\ Len(registered_file) = 2
    /\ registered_file[1].file_path # registered_file[2].file_path
    /\ registered_file[1].temp_file[2] = registered_file[2].temp_file[2]
    /\ fs[registered_file[1].temp_file] = Data
    /\ fs[registered_file[2].temp_file] = NoFile

\* C13: a register call synthesizes at most 3 temp paths.
C13_AtMostThreeSyntheses == Len(reg_cands) <= 3

\* C14: every temp path stored as an entry key lies in temp_dir.
C14_InsideTempDir ==
    \A j \in 1..Len(registered_file) : InTempDir(registered_file[j].temp_file)

\* ------------------------------------------------- eeepy.fileutil: copying
\* absolute, normalized path names
UPaths == {"a", "b", "c"}

Inodes == {"i1", "i2", "i3"}

\* os.stat(path) raises OSError: the path names no file
NoIno == "none"

Kinds == {"reg", "fifo"}

\* stat.S_IMODE(st.st_mode)
Modes == {"rw-------", "rw-r--r--"}

\* the mode open(dst, 'wb') gives a file it creates
CreateMode == "rw-r--r--"

\* hasattr(os.path, 'samefile'): os.path.samefile exists on every platform
\* of Python 3, which the package needs
HasSamefile == TRUE

\* the variables of TempCache
cachevars == <<config, registered_file, fs, pc, idx, n_try, last_ex, trace, n_copy,
               cksum, ex_type, copy_called, flush_ex, scope_ex, rm_trace, regvars,
               flush_log>>

\* a cache that is constructed and not used
CacheIdle ==
    /\ retry = 0
    /\ retry_delay = DefaultRetryDelay
    /\ copy_on_err = FALSE
    /\ validate = TRUE
    /\ registered_file = <<>>
    /\ fs = [p \in Paths |-> NoFile]
    /\ pc = "body"
    /\ idx = 0
    /\ n_try = 0
    /\ last_ex = None
    /\ trace = <<>>
    /\ n_copy = [i \in 1..MaxEntries |-> 0]
    /\ cksum = [i \in 1..MaxEntries |-> <<>>]
    /\ ex_type = None
    /\ copy_called = FALSE
    /\ flush_ex = None
    /\ scope_ex = None
    /\ rm_trace = <<>>
    /\ RegInit
    /\ flush_log = <<>>

path_exists(f, p) == f.link[p] # NoIno

\* os.stat(p), for a path that exists
stat(f, p) == f.node[f.link[p]]

\* _samefile(src, dst)
samefileMutant(f, src, dst) == src = dst
samefile(f, src, dst) ==
    IF HasSamefile
    THEN IF path_exists(f, src) /\ path_exists(f, dst)
         THEN f.link[src] = f.link[dst]
         ELSE FALSE      \* os.path.samefile raised OSError
    ELSE src = dst

\* copyfile lines 273-284: fn exists and is a named pipe
is_fifo(f, fn) == path_exists(f, fn) /\ stat(f, fn).kind = "fifo"

FreeIno(f) == CHOOSE i \in Inodes : \A p \in UPaths : f.link[p] # i

\* open(dst, 'wb'): dst is created or truncated
open_wb(f, dst) ==
    IF path_exists(f, dst)
    THEN [f EXCEPT !.node[f.link[dst]].content = Partial]
    ELSE [f EXCEPT !.link[dst] = FreeIno(f),
                   !.node[FreeIno(f)] =
                       [kind |-> "reg", content |-> Partial, mode |-> CreateMode]]

\* copyfile(src, dst): the files after the call and the exception raised
copyfile_result(f, src, dst, outcome) ==
    IF samefile(f, src, dst) THEN [files |-> f, ex |-> "Error"]
    ELSE IF is_fifo(f, src) \/ is_fifo(f, dst)
    THEN [files |-> f, ex |-> "SpecialFileError"]
    ELSE IF ~path_exists(f, src) \/ outcome = "err_nowrite"
    THEN [files |-> f, ex |-> "IOError"]
    ELSE LET g == open_wb(f, dst)
         IN IF outcome = "err_partial"
            THEN [files |-> g, ex |-> "IOError"]
            ELSE [files |-> [g EXCEPT !.node[g.link[dst]].content = stat(g, src).content],
                  ex |-> None]

\* copymode(src, dst)
copymode(f, src, dst) == [f EXCEPT !.node[f.link[dst]].mode = stat(f, src).mode]

\* copy(src, dst), dst not a directory
copy_result(f, src, dst, outcome) ==
    LET r == copyfile_result(f, src, dst, outcome)
    IN IF r.ex # None THEN r
       ELSE [files |-> copymode(r.files, src, dst), ex |-> None]

\* _copy_file line 222: the function the cache copies with
CacheCopyFnMutant == "copy"
CacheCopyFn == "copyfile"

\* one call of fn on the files
FileutilCall(fn, r, src, dst) ==
    /\ cp_args = <<>>
    /\ cp_args' = [fn |-> fn, src |-> src, dst |-> dst]
    /\ cp_before' = files
    /\ files' = r.files
    /\ cp_ex' = r.ex
    /\ UNCHANGED <<cachevars, bw_spec, bw_value>>

copyfile(src, dst, outcome) ==
    FileutilCall("copyfile", copyfile_result(files, src, dst, outcome), src, dst)

copy(src, dst, outcome) ==
    FileutilCall("copy", copy_result(files, src, dst, outcome), src, dst)

\* _copy_file lines 221-225: the copy of one attempt, its exception caught
cache_copy(temp_file, dest_file, outcome) ==
    FileutilCall("cache",
                 IF CacheCopyFn = "copy"
                 THEN copy_result(files, temp_file, dest_file, outcome)
                 ELSE copyfile_result(files, temp_file, dest_file, outcome),
                 temp_file, dest_file)

InitFileutil ==
    /\ CacheIdle
    /\ \E link \in [UPaths -> {NoIno, "i1", "i2"}] :
       \E k1, k2 \in Kinds : \E m1, m2 \in Modes :
           files = [link |-> link,
                    node |-> [i \in Inodes |->
                                 IF i = "i1"
                                 THEN [kind |-> k1, content |-> Data, mode |-> m1]
                                 ELSE IF i = "i2"
                                 THEN [kind |-> k2, content |-> Corrupt, mode |-> m2]
                                 ELSE [kind |-> "reg", content |-> Partial,
                                       mode |-> CreateMode]]]
    /\ cp_args = <<>>
    /\ cp_before = <<>>
    /\ cp_ex = None
    /\ bw_spec = <<>>
    /\ bw_value = NotParsed

NextFileutil ==
    \/ \E src, dst \in UPaths : \E outcome \in CopyOutcomes : copyfile(src, dst, outcome)
    \/ \E src, dst \in UPaths : \E outcome \in CopyOutcomes : copy(src, dst, outcome)
    \/ \E src, dst \in UPaths : \E outcome \in CopyOutcomes : cache_copy(src, dst, outcome)

SpecFileutil == InitFileutil /\ [][NextFileutil]_vars

CacheCopied == cp_args # <<>> /\ cp_args.fn = "cache" /\ cp_ex = None

\* C18 as stated: after a copy the cache made completes, the destination has
\* the permission bits of the temporary file.
C18_ModeCopied ==
    CacheCopied => stat(files, cp_args.dst).mode = stat(files, cp_args.src).mode

\* C18, amended: a copy the cache makes is fileutil.copyfile, which copies
\* the data only; after it completes the destination holds the content of
\* the temporary file and the permission bits it had before the copy, or
\* those of a newly created file when the copy created it.
C18_DataOnly ==
    CacheCopied =>
        /\ stat(files, cp_args.dst).content = stat(files, cp_args.src).content
        /\ stat(files, cp_args.dst).mode =
               IF path_exists(cp_before, cp_args.dst)
               THEN stat(cp_before, cp_args.dst).mode
               ELSE CreateMode
        /\ stat(files, cp_args.src) = stat(cp_before, cp_args.src)

C18_Witness ==
    /\ CacheCopied
    /\ path_exists(cp_before, cp_args.dst)
    /\ stat(cp_before, cp_args.dst).content # stat(cp_before, cp_args.src).content
    /\ stat(files, cp_args.dst).content = stat(files, cp_args.src).content
    /\ stat(files, cp_args.dst).mode # stat(files, cp_args.src).mode

\* C19: copyfile(src, dst) with src and dst the same file (one path, or two
\* paths of one inode) raises the same-file error and changes no file.
C19_SameFileGuard ==
    (/\ cp_args # <<>>
     /\ cp_args.fn = "copyfile"
     /\ path_exists(cp_before, cp_args.src)
     /\ cp_before.link[cp_args.src] = cp_before.link[cp_args.dst])
        => /\ cp_ex = "Error"
           /\ files = cp_before

C19_Witness ==
    /\ cp_args # <<>>
    /\ cp_args.fn = "copyfile"
    /\ cp_args.src # cp_args.dst
    /\ path_exists(cp_before, cp_args.src)
    /\ cp_before.link[cp_args.src] = cp_before.link[cp_args.dst]
    /\ stat(cp_before, cp_args.src).kind = "reg"
    /\ cp_ex = "Error"
    /\ stat(files, cp_args.src).content = Data

\* ------------------------------------------------- eeepy.fileutil: bandwidth
\* the digit 1 followed by 309 digits 0, kept as one symbol: as a whole
\* number it is beyond the range of float
LongDigits == "1000..(309 zeros)"

Digits == {"0", "1", "5", "9"}

DigitSyms == Digits \cup {LongDigits}

\* line 148: [bkmgtBKMGT]
Suffixes == {"b", "k", "m", "g", "t", "B", "K", "M", "G", "T"}

\* the characters specifications are made of; no g or t, whose values
\* do not fit in 32-bit integers
Chars == DigitSyms \cup {".", "b", "K", "M", "m", "a", "c"}

BwSpecs == UNION {[1..n -> Chars] : n \in 0..MaxSpecLen}

\* m.group(3) is not None
HasSuffix(spec) == Len(spec) > 0 /\ spec[Len(spec)] \in Suffixes

\* m.group(1), when the specification matches
Group1(spec) == IF HasSuffix(spec) THEN SubSeq(spec, 1, Len(spec) - 1) ELSE spec

DotPos(g) == {i \in 1..Len(g) : g[i] = "."}

\* line 148: ^([0-9]+(\.[0-9]+)?)([bkmgtBKMGT])?$ matches
Matches(spec) ==
    LET g == Group1(spec)
    IN /\ Len(g) > 0
       /\ \A i \in 1..Len(g) : g[i] \in DigitSyms \cup {"."}
       /\ Cardinality(DotPos(g)) <= 1
       /\ \A i \in DotPos(g) : 1 < i /\ i < Len(g)

DigitVal(c) == CASE c = "0" -> 0 [] c = "1" -> 1 [] c = "5" -> 5 [] c = "9" -> 9
                 [] c = LongDigits -> 1

\* the whole number a sequence of digits denotes
RECURSIVE WholeVal(_, _)
WholeVal(d, n) == IF n = 0 THEN 0 ELSE WholeVal(d, n - 1) * 10 + DigitVal(d[n])

\* the digits of a fraction that float keeps: those after a LongDigits lie
\* more than 309 places behind a nonzero digit
FracKept(d) ==
    LET long == {i \in 1..Len(d) : d[i] = LongDigits}
    IN IF long = {} THEN d
       ELSE SubSeq(d, 1, CHOOSE i \in long : \A j \in long : i <= j)

\* line 153: float(m.group(1)), as inf or the fraction num / den
FloatOf(g) ==
    LET dot == IF DotPos(g) = {} THEN Len(g) + 1 ELSE CHOOSE i \in DotPos(g) : TRUE
        whole == SubSeq(g, 1, dot - 1)
        frac == FracKept(SubSeq(g, dot + 1, Len(g)))
    IN IF \E i \in 1..Len(whole) : whole[i] = LongDigits
       THEN [inf |-> TRUE, num |-> 0, den |-> 1]
       ELSE [inf |-> FALSE,
             num |-> WholeVal(whole, Len(whole)) * 10 ^ Len(frac) + WholeVal(frac, Len(frac)),
             den |-> 10 ^ Len(frac)]

\* multiplier.upper()
Upper(c) == CASE c = "b" -> "B" [] c = "k" -> "K" [] c = "m" -> "M" [] c = "g" -> "G"
              [] c = "t" -> "T" [] OTHER -> c

\* lines 157-160: the factor applied to the value
Multiplier(spec) ==
    IF HasSuffix(spec)
    THEN LET u == Upper(spec[Len(spec)])
         IN CASE u = "B" -> 1 [] u = "K" -> 1024 [] u = "M" -> 1024 ^ 2
              [] u = "G" -> 1024 ^ 3 [] u = "T" -> 1024 ^ 4
    ELSE 1024

\* _parse_bandwidth(bw_spec): the value returned or the exception raised
parse_result(spec) ==
    IF ~Matches(spec) THEN [called |-> TRUE, ret |-> 0, ex |-> "ValueError"]
    ELSE LET v == FloatOf(Group1(spec))
         IN IF v.inf
            THEN \* line 163: int() of an infinite float
                 [called |-> TRUE, ret |-> 0, ex |-> "OverflowError"]
            ELSE LET b == ((v.num * Multiplier(spec)) \div (v.den * 1024)) * 1024
                 IN [called |-> TRUE, ret |-> IF b = 0 THEN 1024 ELSE b, ex |-> None]

\* one call
parse_bandwidth(spec) ==
    /\ ~bw_value.called
    /\ bw_spec' = spec
    /\ bw_value' = parse_result(spec)
    /\ UNCHANGED <<cachevars, files, cp_args, cp_before, cp_ex>>

InitParse == CacheIdle /\ UtilIdle

NextParse == \E spec \in BwSpecs : parse_bandwidth(spec)

SpecParse == InitParse /\ [][NextParse]_vars

\* C20: for a specification that matches the grammar _parse_bandwidth
\* returns a multiple of 1024 that is at least 1024 ("10" gives 10240, "1M"
\* gives 1048576, "0" gives 1024); for one that does not ("abc") it raises
\* ValueError.
C20_ParseBandwidth ==
    bw_value.called =>
        /\ Matches(bw_spec) => /\ bw_value.ex = None
                               /\ bw_value.ret % 1024 = 0
                               /\ bw_value.ret >= 1024
        /\ ~Matches(bw_spec) => bw_value.ex = "ValueError"
        /\ bw_spec = <<"1", "0">> => bw_value.ret = 10240
        /\ bw_spec = <<"1", "M">> => bw_value.ret = 1048576
        /\ bw_spec = <<"0">> => bw_value.ret = 1024
        /\ bw_spec = <<"a", "b", "c">> => bw_value.ex = "ValueError"

\* ------------------------------------------------- what a flush leaves
TempOf(j) == registered_file[j].temp_file

\* C21: a step of do_copy removes a temporary file only in _rm_file of the
\* current entry, after the _copy_file of that entry returned with no error
\* recorded; a step in which _copy_file raises leaves the temporary file of
\* the current and of every later entry as it was.
C21_TempKeptOnFailure ==
    [][/\ \A j \in 1..Len(registered_file) :
              (isfile(fs, TempOf(j)) /\ ~isfile(fs', TempOf(j)))
                  => /\ pc = "rm"
                     /\ j = idx
                     /\ TransferReturned
                     /\ last_ex = None
       /\ (pc \in {"copy_check", "validate", "finish"} /\ pc' = "done" /\ flush_ex' # None)
              => \A j \in idx..Len(registered_file) : fs'[TempOf(j)] = fs[TempOf(j)]
      ]_vars

C21_Witness ==
    /\ pc = "done"
    /\ flush_ex = "CopyError"
    /\ Len(registered_file) = 3
    /\ idx = 2
    /\ ~exists(fs, TempOf(1))
    /\ isfile(fs, TempOf(2))
    /\ isfile(fs, TempOf(3))

\* the entry the events of trace belong to: do_copy has moved on to the next
\* entry when the next _copy_file is about to start
TraceIdx == IF pc = "copy_check" THEN idx - 1 ELSE idx

TraceDest == registered_file[TraceIdx].file_path

CopyEvs == SelectSeq(trace, LAMBDA e : e.ev = "copy")

\* what the copy of the last attempt raised (None: it returned)
LastCopyArg == CopyEvs[Len(CopyEvs)].arg

FailedCleanups == Len(SelectSeq(trace, LAMBDA e : e.ev = "remove_dest" /\ e.arg # None))

\* C22: a _copy_file that got through its loop (every validation passed or
\* validation is off) made retry + 1 copies and returns exactly when the
\* copy of the last attempt returned, whatever the earlier ones did; when it
\* returns the destination is there, when it raises it raises the error of
\* the last copy and the destination is gone unless all CleanupTries
\* removals failed.
C22_FinalAttemptDecides ==
    (trace # <<>> /\ LastEv.ev \in {"return", "raise"}) =>
        /\ Copies = retry + 1
        /\ LastEv.ev = "return" <=> LastCopyArg = None
        /\ LastEv.ev = "return" => exists(fs, TraceDest)
        /\ LastEv.ev = "raise" =>
               /\ LastEv.arg = LastCopyArg
               /\ exists(fs, TraceDest) => FailedCleanups = CleanupTries

\* a clean first attempt, a copy error on the last one: failure, destination removed
C22_Witness ==
    /\ trace # <<>>
    /\ LastEv.ev = "raise"
    /\ validate
    /\ retry = 1
    /\ CopyEvs[1].arg = None
    /\ LastCopyArg = "CopyError"
    /\ CountEv(trace, "remove_dest") = 1
    /\ ~exists(fs, TraceDest)

\* ------------------------------------------------- do_copy called again
\* do_copy(), called by the program after the with statement or after an
\* earlier do_copy; flush_log keeps how the call before it ended
do_copy ==
    /\ pc = "done"
    /\ Len(flush_log) < MaxFlush - 1
    /\ flush_log' = IF copy_called THEN Append(flush_log, flush_ex) ELSE flush_log
    /\ copy_called' = TRUE
    /\ flush_ex' = None
    /\ IF registered_file = <<>>
       THEN UNCHANGED <<pc, idx>>
       ELSE /\ pc' = "copy_check"
            /\ idx' = 1
    /\ UNCHANGED <<config, registered_file, fs, n_try, last_ex, trace, n_copy, cksum,
                   ex_type, scope_ex, rm_trace, regvars, utilvars>>

NextReflush == Next \/ do_copy

\* TempCache(retry=0), constructed and not used
InitReflush == CacheIdle /\ UtilIdle

SpecReflush == InitReflush /\ [][NextReflush]_vars

DoRmEntries == {j \in 1..Len(registered_file) : registered_file[j].do_rm}

\* the first entry with do_rm set
FirstRm == CHOOSE j \in DoRmEntries : \A k \in DoRmEntries : j <= k

\* the do_copy before the current one returned normally
AfterGoodFlush == flush_log # <<>> /\ flush_log[Len(flush_log)] = None

\* C23: no step of do_copy changes the registry, and a do_copy that follows
\* one that returned normally never gets past the first entry with do_rm
\* set: the temporary file of that entry is gone, its _copy_file raises
\* IOError before any copy, and do_copy ends with that error unless an
\* earlier entry failed.
C23_RegistryKept ==
    /\ [][pc # "body" => registered_file' = registered_file]_vars
    /\ [](AfterGoodFlush /\ DoRmEntries # {} =>
             /\ ~exists(fs, TempOf(FirstRm))
             /\ idx <= FirstRm
             /\ pc \in {"attempt", "validate", "finish", "rm"} => idx < FirstRm
             /\ pc = "done" => /\ flush_ex # None
                               /\ idx = FirstRm => flush_ex = "IOError" /\ trace = <<>>)

C23_Witness ==
    /\ AfterGoodFlush
    /\ pc = "done"
    /\ Len(registered_file) = 2
    /\ ~registered_file[1].do_rm
    /\ registered_file[2].do_rm
    /\ idx = 2
    /\ flush_ex = "IOError"
    /\ n_copy[1] = 2 * (retry + 1)
    /\ n_copy[2] = retry + 1

====
